---- MODULE Spec2Model ----
(***************************************************************************)
(* The annotation API views of h (src/h/views/api/annotations.py) and the  *)
(* event type they publish (src/h/events.py).                              *)
(*                                                                         *)
(* A request is handled by one view function.  Every call a view makes to  *)
(* a collaborator (schema validation, the write service, the search        *)
(* library, the presentation service, the search index, the event queue)   *)
(* is one step of the model; each step appends the call to the request's   *)
(* call log, so that the order and the number of calls are part of the     *)
(* state.  After the view has returned or raised, the transaction manager  *)
(* commits or aborts the unit of work and the event queue publishes or     *)
(* discards the events the view scheduled.                                 *)
(***************************************************************************)
EXTENDS Integers, Sequences, FiniteSets, TLC

\* Request slots (request objects that can exist).
NumReqs == 2
\* Annotation identifiers are 1..MaxIds.
MaxIds == 2

Reqs == 1..NumReqs
Ids == 1..MaxIds
Users == {"u1", "u2"}

\* Raw JSON payloads of create/update: "bad" does not satisfy the schema.
Payloads == {"bad", "hi", "yo"}
\* Raw values of the _separate_replies query parameter ("absent": not sent).
RawFlags == {"absent", "true", "false", "maybe"}

VARIABLES
    reqs,      \* request slot -> the request and the locals of its view
    store,     \* committed annotations: id -> <<>> or <<annotation>>
    index,     \* ids of the annotations in the search index
    nextId,    \* next identifier the write service hands out
    h_dev      \* request.registry.settings["h.dev"]

vars == <<reqs, store, index, nextId, h_dev>>

----------------------------------------------------------------------------
(* Values *)

None == <<>>
Some(x) == <<x>>

\* An annotation as the views see it: id, target_uri and groupid are read by
\* the views; text stands for the rest of the stored document.
Annotation(id, text) ==
    [id |-> id, text |-> text, target_uri |-> "http://x", groupid |-> "__world__"]

\* h.events.AnnotationEvent.__init__
AnnotationEvent(request, annotation_id, action) ==
    [request |-> request, annotation_id |-> annotation_id, action |-> action]

\* typing.Literal of h.events
AnnotationAction == {"create", "update", "delete"}

Call(fn, args, ok) == [fn |-> fn, args |-> args, ok |-> ok]

\* A request slot nobody uses.
IdleReq ==
    [op |-> "none", pc |-> "idle", user |-> "", payload |-> "", rawflag |-> "",
     context |-> None, appstruct |-> None, annotation |-> None,
     params |-> None, separate_replies |-> FALSE, result |-> None, out |-> None,
     content_type |-> "", response |-> None, exception |-> "",
     calls |-> <<>>, queue |-> <<>>, tx |-> <<>>, tm |-> "none",
     cancelled_at |-> "", delivered |-> <<>>]

\* The annotations currently committed.
Stored == {store[i][1] : i \in {j \in Ids : store[j] # None}}

\* dict.pop(key, default): the value and the dict without the key.
dict_pop_value(d, key, default) == IF key \in DOMAIN d THEN d[key] ELSE default
dict_pop_rest(d, key) == [k \in DOMAIN d \ {key} |-> d[k]]

\* A view raising exc: nothing is returned.
Raise(rq, exc) == [rq EXCEPT !.pc = "raised", !.exception = exc]
\* A view returning body.
Return(rq, body) == [rq EXCEPT !.pc = "returned", !.response = Some(body)]
\* Recording a collaborator call.
Log(rq, fn, args, ok) == [rq EXCEPT !.calls = Append(@, Call(fn, args, ok))]

----------------------------------------------------------------------------
(* Collaborators *)

\* Schema.validate of CreateAnnotationSchema / UpdateAnnotationSchema.
schema_valid(payload) == payload # "bad"
schema_validate(payload) == [text |-> payload]

\* validate_query_params(SearchParamsSchema(), request.params)
query_valid(rawflag) == rawflag # "maybe"
validate_query_params(rawflag) ==
    IF rawflag = "absent" THEN ("q" :> "foo")
    ELSE ("q" :> "foo") @@ ("_separate_replies" :> (rawflag = "true"))

\* AnnotationWriteService.create_annotation(data): a new annotation.
create_annotation(data) == Annotation(nextId, data.text)

\* AnnotationWriteService.update_annotation(annotation, data): the same record
\* with the new contents.
update_annotation(annotation, data) == [annotation EXCEPT !.text = data.text]

\* annotation_json.present_for_user(annotation, user)
present_for_user(annotation, user) ==
    [presented |-> annotation.id, body |-> annotation.text, viewer |-> user]

\* annotation_json.present_all_for_user(annotation_ids, user): one bulk
\* lookup, in the order of the ids.
RECURSIVE present_all_for_user(_, _)
present_all_for_user(annotation_ids, user) ==
    IF annotation_ids = <<>> THEN <<>>
    ELSE LET id == Head(annotation_ids)
             rest == present_all_for_user(Tail(annotation_ids), user)
         IN IF store[id] = None THEN rest
            ELSE <<present_for_user(store[id][1], user)>> \o rest

\* AnnotationJSONLDPresenter(annotation, links_service).asdict()
jsonld_asdict(annotation) ==
    [context |-> "http://www.w3.org/ns/anno.jsonld", id |-> annotation.id,
     bodyValue |-> annotation.text]

\* request.notify_after_commit(event): the event waits in the request's queue.
notify_after_commit(rq, event) ==
    [Log(rq, "notify_after_commit", <<event>>, TRUE)
        EXCEPT !.queue = Append(@, event)]

\* Sequences without repetition over S.
RECURSIVE Arrangements(_)
Arrangements(S) ==
    {<<>>} \cup UNION {{<<x>> \o t : t \in Arrangements(S \ {x})} : x \in S}

Range(s) == {s[i] : i \in 1..Len(s)}

\* What Search(request, separate_replies).run(params) can return: the primary
\* ids of one page, the number of matches (the page may hold fewer) and, when
\* replies are separated, the reply ids; reply ids are disjoint from the
\* primary ids.
SearchResults(separate_replies) ==
    UNION {{[total |-> t, annotation_ids |-> a, reply_ids |-> p] :
                t \in Len(a)..Cardinality(index),
                p \in IF separate_replies
                      THEN Arrangements(index \ Range(a))
                      ELSE {<<>>}} :
           a \in Arrangements(index)}

----------------------------------------------------------------------------
(* The mutations a unit of work holds until it commits *)

RECURSIVE ApplyStore(_, _)
ApplyStore(st, tx) ==
    IF tx = <<>> THEN st
    ELSE LET m == Head(tx)
         IN ApplyStore(
                IF m.kind = "put" THEN [st EXCEPT ![m.annotation.id] = Some(m.annotation)]
                ELSE [st EXCEPT ![m.annotation.id] = None],
                Tail(tx))

RECURSIVE ApplyIndex(_, _)
ApplyIndex(ix, tx) ==
    IF tx = <<>> THEN ix
    ELSE LET m == Head(tx)
         IN ApplyIndex(IF m.kind = "delete" THEN ix \ {m.annotation.id} ELSE ix, Tail(tx))

----------------------------------------------------------------------------
(* The state after start-up *)

\* Some annotations exist, all of them indexed; no request is being handled.
Init ==
    /\ reqs = [r \in Reqs |-> IdleReq]
    /\ \E n \in 0..MaxIds :
          /\ store = [i \in Ids |-> IF i <= n THEN Some(Annotation(i, "hi")) ELSE None]
          /\ index = 1..n
          /\ nextId = n + 1
    /\ h_dev \in BOOLEAN

\* One request is handled per unit of work.
WorkerFree == \A s \in Reqs : reqs[s].pc = "idle"

\* A request reaching a view: the route and its permission have been resolved,
\* and for the routes of one annotation the context holds that annotation.
NewReq(op, pc, user) ==
    [IdleReq EXCEPT !.op = op, !.pc = pc, !.user = user, !.tm = "active"]

Set(r, rq) == reqs' = [reqs EXCEPT ![r] = rq]

begin_search(r) ==
    /\ WorkerFree
    /\ \E u \in Users, f \in RawFlags :
          Set(r, [NewReq("search", "search_47", u) EXCEPT !.rawflag = f])
    /\ UNCHANGED <<store, index, nextId, h_dev>>

\* A create request reaches the view in a free request slot.
arrive_create(r) ==
    /\ reqs[r].pc = "idle"
    /\ \E u \in Users, p \in Payloads :
          Set(r, [NewReq("create", "create_81", u) EXCEPT !.payload = p])
    /\ UNCHANGED <<store, index, nextId, h_dev>>

begin_create(r) ==
    /\ WorkerFree
    /\ arrive_create(r)

begin_read(r) ==
    /\ WorkerFree
    /\ \E u \in Users, a \in Stored :
          Set(r, [NewReq("read", "read_104", u) EXCEPT !.context = Some(a)])
    /\ UNCHANGED <<store, index, nextId, h_dev>>

begin_read_jsonld(r) ==
    /\ WorkerFree
    /\ \E u \in Users, a \in Stored :
          Set(r, [NewReq("read_jsonld", "read_jsonld_116", u) EXCEPT !.context = Some(a)])
    /\ UNCHANGED <<store, index, nextId, h_dev>>

\* An update request reaches the view in a free request slot.
arrive_update(r) ==
    /\ reqs[r].pc = "idle"
    /\ \E u \in Users, a \in Stored, p \in Payloads :
          Set(r, [NewReq("update", "update_140", u)
                    EXCEPT !.context = Some(a), !.payload = p])
    /\ UNCHANGED <<store, index, nextId, h_dev>>

begin_update(r) ==
    /\ WorkerFree
    /\ arrive_update(r)

begin_delete(r) ==
    /\ WorkerFree
    /\ \E u \in Users, a \in Stored :
          Set(r, [NewReq("delete", "delete_163", u) EXCEPT !.context = Some(a)])
    /\ UNCHANGED <<store, index, nextId, h_dev>>

begin_reindex(r) ==
    /\ WorkerFree
    /\ \E u \in Users, a \in Stored :
          Set(r, [NewReq("reindex", "reindex_185", u) EXCEPT !.context = Some(a)])
    /\ UNCHANGED <<store, index, nextId, h_dev>>

----------------------------------------------------------------------------
(* _publish_annotation_event *)

\* Slip: the action is fixed instead of passed through.
_publish_annotation_event_fixed_action(r, annotation, action) ==
    notify_after_commit(reqs[r], AnnotationEvent(r, annotation.id, "create"))

\* Slip: the subscribers are notified at once (registry.notify) instead of
\* after the commit.
_publish_annotation_event_at_once(r, annotation, action) ==
    LET event == AnnotationEvent(r, annotation.id, action)
    IN [Log(reqs[r], "registry.notify", <<event>>, TRUE)
           EXCEPT !.delivered = Append(@, event)]

\* Slip: the request is taken from a process-wide "current request", the
\* oldest worker slot in use, instead of the argument.
_publish_annotation_event_current_request(r, annotation, action) ==
    LET current == CHOOSE c \in Reqs :
                      /\ reqs[c].pc # "idle"
                      /\ \A d \in Reqs : reqs[d].pc # "idle" => c <= d
    IN notify_after_commit(reqs[r], AnnotationEvent(current, annotation.id, action))

\* event = AnnotationEvent(request, annotation.id, action)
\* request.notify_after_commit(event)
_publish_annotation_event(r, annotation, action) ==
    notify_after_commit(reqs[r], AnnotationEvent(r, annotation.id, action))

----------------------------------------------------------------------------
(* create *)

\* Slip: the outcome of the validation is ignored and the raw payload is used.
create_validate_lenient(r) ==
    /\ reqs[r].pc = "create_81"
    /\ LET rq == reqs[r]
           args == <<"CreateAnnotationSchema", rq.payload>>
       IN Set(r, [Log(rq, "validate", args, schema_valid(rq.payload))
                     EXCEPT !.appstruct = Some(schema_validate(rq.payload)),
                            !.pc = "create_83"])
    /\ UNCHANGED <<store, index, nextId, h_dev>>

\* appstruct = schema.validate(json_payload(request))
create_validate(r) ==
    LET rq == reqs[r]
        args == <<"CreateAnnotationSchema", rq.payload>>
    IN /\ rq.pc = "create_81"
       /\ IF schema_valid(rq.payload)
          THEN Set(r, [Log(rq, "validate", args, TRUE)
                          EXCEPT !.appstruct = Some(schema_validate(rq.payload)),
                                 !.pc = "create_83"])
          ELSE Set(r, Raise(Log(rq, "validate", args, FALSE), "ValidationError"))
       /\ UNCHANGED <<store, index, nextId, h_dev>>

\* annotation = ...find_service(AnnotationWriteService).create_annotation(data=appstruct)
create_write(r) ==
    LET rq == reqs[r]
        data == rq.appstruct[1]
    IN /\ rq.pc = "create_83"
       /\ \/ /\ nextId <= MaxIds
             /\ LET annotation == create_annotation(data)
                IN Set(r, [Log(rq, "create_annotation", <<data>>, TRUE)
                              EXCEPT !.annotation = Some(annotation),
                                     !.tx = Append(@, [kind |-> "put", annotation |-> annotation]),
                                     !.pc = "create_87"])
             /\ nextId' = nextId + 1
          \/ /\ Set(r, Raise(Log(rq, "create_annotation", <<data>>, FALSE),
                             "CollaboratorFailure"))
             /\ UNCHANGED nextId
       /\ UNCHANGED <<store, index, h_dev>>

\* _publish_annotation_event(request, annotation, "create")
create_publish(r) ==
    LET rq == reqs[r]
    IN /\ rq.pc = "create_87"
       /\ Set(r, [_publish_annotation_event(r, rq.annotation[1], "create")
                     EXCEPT !.pc = "create_89"])
       /\ UNCHANGED <<store, index, nextId, h_dev>>

\* return ...find_service(name="annotation_json").present_for_user(annotation, user)
create_present(r) ==
    LET rq == reqs[r]
        args == <<rq.annotation[1], rq.user>>
    IN /\ rq.pc = "create_89"
       /\ \/ Set(r, Return(Log(rq, "present_for_user", args, TRUE),
                           present_for_user(rq.annotation[1], rq.user)))
          \/ Set(r, Raise(Log(rq, "present_for_user", args, FALSE),
                          "CollaboratorFailure"))
       /\ UNCHANGED <<store, index, nextId, h_dev>>

----------------------------------------------------------------------------
(* read, read_jsonld *)

\* Slip: read marks the annotation it returns as seen.
read_marking(r) ==
    /\ reqs[r].pc = "read_104"
    /\ LET rq == reqs[r]
           args == <<rq.context[1], rq.user>>
           seen == [rq.context[1] EXCEPT !.text = "seen"]
       IN \/ Set(r, Return([Log(rq, "present_for_user", args, TRUE)
                               EXCEPT !.tx = Append(@, [kind |-> "put", annotation |-> seen])],
                           present_for_user(rq.context[1], rq.user)))
          \/ Set(r, Raise(Log(rq, "present_for_user", args, FALSE),
                          "CollaboratorFailure"))
    /\ UNCHANGED <<store, index, nextId, h_dev>>

\* Slip: read publishes an event the way create and update do.
read_with_event(r) ==
    /\ reqs[r].pc = "read_104"
    /\ LET rq == _publish_annotation_event(r, reqs[r].context[1], "read")
           args == <<rq.context[1], rq.user>>
       IN \/ Set(r, Return(Log(rq, "present_for_user", args, TRUE),
                           present_for_user(rq.context[1], rq.user)))
          \/ Set(r, Raise(Log(rq, "present_for_user", args, FALSE),
                          "CollaboratorFailure"))
    /\ UNCHANGED <<store, index, nextId, h_dev>>

\* return ...find_service(name="annotation_json").present_for_user(
\*     annotation=context.annotation, user=request.user)
read(r) ==
    LET rq == reqs[r]
        args == <<rq.context[1], rq.user>>
    IN /\ rq.pc = "read_104"
       /\ \/ Set(r, Return(Log(rq, "present_for_user", args, TRUE),
                           present_for_user(rq.context[1], rq.user)))
          \/ Set(r, Raise(Log(rq, "present_for_user", args, FALSE),
                          "CollaboratorFailure"))
       /\ UNCHANGED <<store, index, nextId, h_dev>>

read_jsonld(r) ==
    LET rq == [reqs[r] EXCEPT !.content_type = "application/ld+json"]
        args == <<rq.context[1]>>
    IN /\ rq.pc = "read_jsonld_116"
       /\ \/ Set(r, Return(Log(rq, "AnnotationJSONLDPresenter.asdict", args, TRUE),
                           jsonld_asdict(rq.context[1])))
          \/ Set(r, Raise(Log(rq, "AnnotationJSONLDPresenter.asdict", args, FALSE),
                          "CollaboratorFailure"))
       /\ UNCHANGED <<store, index, nextId, h_dev>>

----------------------------------------------------------------------------
(* update *)

\* Slip: the outcome of the validation is ignored and the raw payload is used.
update_validate_lenient(r) ==
    /\ reqs[r].pc = "update_140"
    /\ LET rq == reqs[r]
           ctx == rq.context[1]
           args == <<"UpdateAnnotationSchema", ctx.target_uri, ctx.groupid, rq.payload>>
       IN Set(r, [Log(rq, "validate", args, schema_valid(rq.payload))
                     EXCEPT !.appstruct = Some(schema_validate(rq.payload)),
                            !.pc = "update_142"])
    /\ UNCHANGED <<store, index, nextId, h_dev>>

\* schema = UpdateAnnotationSchema(request, target_uri, groupid)
\* appstruct = schema.validate(json_payload(request))
update_validate(r) ==
    LET rq == reqs[r]
        ctx == rq.context[1]
        args == <<"UpdateAnnotationSchema", ctx.target_uri, ctx.groupid, rq.payload>>
    IN /\ rq.pc = "update_140"
       /\ IF schema_valid(rq.payload)
          THEN Set(r, [Log(rq, "validate", args, TRUE)
                          EXCEPT !.appstruct = Some(schema_validate(rq.payload)),
                                 !.pc = "update_142"])
          ELSE Set(r, Raise(Log(rq, "validate", args, FALSE), "ValidationError"))
       /\ UNCHANGED <<store, index, nextId, h_dev>>

\* Slip: the event is published before the write is attempted.
update_write_after_publish(r) ==
    /\ reqs[r].pc = "update_142"
    /\ LET rq == _publish_annotation_event(r, reqs[r].context[1], "update")
           data == rq.appstruct[1]
           args == <<rq.context[1], data>>
       IN \/ LET annotation == update_annotation(rq.context[1], data)
             IN Set(r, [Log(rq, "update_annotation", args, TRUE)
                           EXCEPT !.annotation = Some(annotation),
                                  !.tx = Append(@, [kind |-> "put", annotation |-> annotation]),
                                  !.pc = "update_148"])
          \/ Set(r, Raise(Log(rq, "update_annotation", args, FALSE),
                          "CollaboratorFailure"))
    /\ UNCHANGED <<store, index, nextId, h_dev>>

\* annotation = ...update_annotation(context.annotation, data=appstruct)
update_write(r) ==
    LET rq == reqs[r]
        data == rq.appstruct[1]
        args == <<rq.context[1], data>>
    IN /\ rq.pc = "update_142"
       /\ \/ LET annotation == update_annotation(rq.context[1], data)
             IN Set(r, [Log(rq, "update_annotation", args, TRUE)
                           EXCEPT !.annotation = Some(annotation),
                                  !.tx = Append(@, [kind |-> "put", annotation |-> annotation]),
                                  !.pc = "update_146"])
          \/ Set(r, Raise(Log(rq, "update_annotation", args, FALSE),
                          "CollaboratorFailure"))
       /\ UNCHANGED <<store, index, nextId, h_dev>>

\* Slip: the event of an update is published twice.
update_publish_twice(r) ==
    /\ reqs[r].pc = "update_146"
    /\ LET once == _publish_annotation_event(r, reqs[r].annotation[1], "update")
           event == AnnotationEvent(r, reqs[r].annotation[1].id, "update")
       IN Set(r, [notify_after_commit(once, event) EXCEPT !.pc = "update_148"])
    /\ UNCHANGED <<store, index, nextId, h_dev>>

\* _publish_annotation_event(request, annotation, "update")
update_publish(r) ==
    LET rq == reqs[r]
    IN /\ rq.pc = "update_146"
       /\ Set(r, [_publish_annotation_event(r, rq.annotation[1], "update")
                     EXCEPT !.pc = "update_148"])
       /\ UNCHANGED <<store, index, nextId, h_dev>>

\* Slip: the annotation of the context is presented, not the one the write
\* service returned.
update_present_context(r) ==
    /\ reqs[r].pc = "update_148"
    /\ LET rq == reqs[r]
           args == <<rq.context[1], rq.user>>
       IN \/ Set(r, Return(Log(rq, "present_for_user", args, TRUE),
                           present_for_user(rq.context[1], rq.user)))
          \/ Set(r, Raise(Log(rq, "present_for_user", args, FALSE),
                          "CollaboratorFailure"))
    /\ UNCHANGED <<store, index, nextId, h_dev>>

\* return ...find_service(name="annotation_json").present_for_user(annotation, user)
update_present(r) ==
    LET rq == reqs[r]
        args == <<rq.annotation[1], rq.user>>
    IN /\ rq.pc = "update_148"
       /\ \/ Set(r, Return(Log(rq, "present_for_user", args, TRUE),
                           present_for_user(rq.annotation[1], rq.user)))
          \/ Set(r, Raise(Log(rq, "present_for_user", args, FALSE),
                          "CollaboratorFailure"))
       /\ UNCHANGED <<store, index, nextId, h_dev>>

----------------------------------------------------------------------------
(* delete *)

\* Slip: a failed deletion is tried once more.
delete_retry(r) ==
    /\ reqs[r].pc = "delete_163"
    /\ LET rq == reqs[r]
           ctx == rq.context[1]
           body == [id |-> ctx.id, deleted |-> TRUE]
           pending == [kind |-> "delete", annotation |-> ctx]
           failed == Log(rq, "delete", <<ctx>>, FALSE)
       IN \/ Set(r, Return([Log(rq, "delete", <<ctx>>, TRUE)
                               EXCEPT !.tx = Append(@, pending)], body))
          \/ Set(r, Return([Log(failed, "delete", <<ctx>>, TRUE)
                               EXCEPT !.tx = Append(@, pending)], body))
          \/ Set(r, Raise(Log(failed, "delete", <<ctx>>, FALSE), "CollaboratorFailure"))
    /\ UNCHANGED <<store, index, nextId, h_dev>>

\* Slip: delete publishes an event the way create and update do.
delete_with_event(r) ==
    /\ reqs[r].pc = "delete_163"
    /\ LET ctx == reqs[r].context[1]
           rq == _publish_annotation_event(r, ctx, "delete")
       IN \/ Set(r, Return([Log(rq, "delete", <<ctx>>, TRUE)
                               EXCEPT !.tx = Append(@, [kind |-> "delete", annotation |-> ctx])],
                           [id |-> ctx.id, deleted |-> TRUE]))
          \/ Set(r, Raise(Log(reqs[r], "delete", <<ctx>>, FALSE), "CollaboratorFailure"))
    /\ UNCHANGED <<store, index, nextId, h_dev>>

\* annotation_delete_service.delete(context.annotation)
\* return {"id": context.annotation.id, "deleted": True}
delete(r) ==
    LET rq == reqs[r]
        ctx == rq.context[1]
    IN /\ rq.pc = "delete_163"
       /\ \/ Set(r, Return([Log(rq, "delete", <<ctx>>, TRUE)
                               EXCEPT !.tx = Append(@, [kind |-> "delete", annotation |-> ctx])],
                           [id |-> ctx.id, deleted |-> TRUE]))
          \/ Set(r, Raise(Log(rq, "delete", <<ctx>>, FALSE), "CollaboratorFailure"))
       /\ UNCHANGED <<store, index, nextId, h_dev>>

----------------------------------------------------------------------------
(* reindex *)

\* Slip: the dev-mode gate is checked after the annotation has been indexed.
reindex_gate_last(r) ==
    /\ reqs[r].pc = "reindex_185"
    /\ LET rq == reqs[r]
           ctx == rq.context[1]
           args == <<ctx, [refresh |-> TRUE]>>
       IN \/ /\ Set(r, IF ~h_dev
                       THEN Raise(Log(rq, "add_annotation", args, TRUE), "HTTPNotFound")
                       ELSE Return(Log(rq, "add_annotation", args, TRUE),
                                   [id |-> ctx.id, indexed |-> TRUE]))
             /\ index' = index \cup {ctx.id}
          \/ /\ Set(r, Raise(Log(rq, "add_annotation", args, FALSE),
                             "CollaboratorFailure"))
             /\ UNCHANGED index
    /\ UNCHANGED <<store, nextId, h_dev>>

\* Slip: the annotation is indexed without refresh.
reindex_no_refresh(r) ==
    /\ reqs[r].pc = "reindex_185"
    /\ LET rq == reqs[r]
           ctx == rq.context[1]
           args == <<ctx, [refresh |-> FALSE]>>
       IN IF ~h_dev
          THEN /\ Set(r, Raise(rq, "HTTPNotFound"))
               /\ UNCHANGED index
          ELSE \/ /\ Set(r, Return(Log(rq, "add_annotation", args, TRUE),
                                   [id |-> ctx.id, indexed |-> TRUE]))
                  /\ UNCHANGED index
               \/ /\ Set(r, Raise(Log(rq, "add_annotation", args, FALSE),
                                  "CollaboratorFailure"))
                  /\ UNCHANGED index
    /\ UNCHANGED <<store, nextId, h_dev>>

\* if not request.registry.settings["h.dev"]: raise HTTPNotFound
\* search_index.add_annotation(context.annotation, refresh=True)
\* return {"id": context.annotation.id, "indexed": True}
reindex(r) ==
    LET rq == reqs[r]
        ctx == rq.context[1]
        args == <<ctx, [refresh |-> TRUE]>>
    IN /\ rq.pc = "reindex_185"
       /\ IF ~h_dev
          THEN /\ Set(r, Raise(rq, "HTTPNotFound"))
               /\ UNCHANGED index
          ELSE \/ /\ Set(r, Return(Log(rq, "add_annotation", args, TRUE),
                                   [id |-> ctx.id, indexed |-> TRUE]))
                  /\ index' = index \cup {ctx.id}
               \/ /\ Set(r, Raise(Log(rq, "add_annotation", args, FALSE),
                                  "CollaboratorFailure"))
                  /\ UNCHANGED index
       /\ UNCHANGED <<store, nextId, h_dev>>

----------------------------------------------------------------------------
(* search *)

\* Slip: the flag is read with get, so it stays in the parameters.
search_validate_get(r) ==
    /\ reqs[r].pc = "search_47"
    /\ LET rq == reqs[r]
           params == validate_query_params(rq.rawflag)
       IN IF query_valid(rq.rawflag)
          THEN Set(r, [Log(rq, "validate_query_params", <<rq.rawflag>>, TRUE)
                          EXCEPT !.separate_replies =
                                     dict_pop_value(params, "_separate_replies", FALSE),
                                 !.params = Some(params),
                                 !.pc = "search_51"])
          ELSE Set(r, Raise(Log(rq, "validate_query_params", <<rq.rawflag>>, FALSE),
                            "ValidationError"))
    /\ UNCHANGED <<store, index, nextId, h_dev>>

\* params = validate_query_params(schema, request.params)
\* separate_replies = params.pop("_separate_replies", False)
search_validate(r) ==
    LET rq == reqs[r]
        params == validate_query_params(rq.rawflag)
    IN /\ rq.pc = "search_47"
       /\ IF query_valid(rq.rawflag)
          THEN Set(r, [Log(rq, "validate_query_params", <<rq.rawflag>>, TRUE)
                          EXCEPT !.separate_replies =
                                     dict_pop_value(params, "_separate_replies", FALSE),
                                 !.params = Some(dict_pop_rest(params, "_separate_replies")),
                                 !.pc = "search_51"])
          ELSE Set(r, Raise(Log(rq, "validate_query_params", <<rq.rawflag>>, FALSE),
                            "ValidationError"))
       /\ UNCHANGED <<store, index, nextId, h_dev>>

\* result = search_lib.Search(request, separate_replies=separate_replies).run(params)
search_run(r) ==
    LET rq == reqs[r]
        args == <<rq.params[1], [separate_replies |-> rq.separate_replies]>>
    IN /\ rq.pc = "search_51"
       /\ \/ \E result \in SearchResults(rq.separate_replies) :
                Set(r, [Log(rq, "Search.run", args, TRUE)
                           EXCEPT !.result = Some(result), !.pc = "search_53"])
          \/ Set(r, Raise(Log(rq, "Search.run", args, FALSE), "CollaboratorFailure"))
       /\ UNCHANGED <<store, index, nextId, h_dev>>

\* Slip: the primary ids are put in another order before they are presented.
search_rows_reordered(r) ==
    /\ reqs[r].pc = "search_53"
    /\ LET rq == reqs[r]
           result == rq.result[1]
           ids == [i \in 1..Len(result.annotation_ids) |->
                      result.annotation_ids[Len(result.annotation_ids) + 1 - i]]
           args == <<ids, rq.user>>
       IN \/ Set(r, [Log(rq, "present_all_for_user", args, TRUE)
                        EXCEPT !.out = Some([total |-> result.total,
                                             rows |-> present_all_for_user(ids, rq.user)]),
                               !.pc = "search_62"])
          \/ Set(r, Raise(Log(rq, "present_all_for_user", args, FALSE),
                          "CollaboratorFailure"))
    /\ UNCHANGED <<store, index, nextId, h_dev>>

\* out = {"total": result.total,
\*        "rows": svc.present_all_for_user(annotation_ids=result.annotation_ids, ...)}
search_rows(r) ==
    LET rq == reqs[r]
        result == rq.result[1]
        args == <<result.annotation_ids, rq.user>>
    IN /\ rq.pc = "search_53"
       /\ \/ Set(r, [Log(rq, "present_all_for_user", args, TRUE)
                        EXCEPT !.out = Some([total |-> result.total,
                                             rows |-> present_all_for_user(
                                                          result.annotation_ids, rq.user)]),
                               !.pc = "search_62"])
          \/ Set(r, Raise(Log(rq, "present_all_for_user", args, FALSE),
                          "CollaboratorFailure"))
       /\ UNCHANGED <<store, index, nextId, h_dev>>

\* Slip: the replies are built whatever the flag says.
search_replies_always(r) ==
    /\ reqs[r].pc = "search_62"
    /\ LET rq == reqs[r]
           result == rq.result[1]
           out == rq.out[1]
           args == <<result.reply_ids, rq.user>>
           with_replies ==
               [total |-> out.total, rows |-> out.rows,
                replies |-> present_all_for_user(result.reply_ids, rq.user)]
       IN \/ Set(r, Return([Log(rq, "present_all_for_user", args, TRUE)
                               EXCEPT !.out = Some(with_replies)],
                           with_replies))
          \/ Set(r, Raise(Log(rq, "present_all_for_user", args, FALSE),
                          "CollaboratorFailure"))
    /\ UNCHANGED <<store, index, nextId, h_dev>>

\* Slip: the replies are built from the primary ids.
search_replies_from_rows(r) ==
    /\ reqs[r].pc = "search_62"
    /\ LET rq == reqs[r]
           result == rq.result[1]
           out == rq.out[1]
           args == <<result.annotation_ids, rq.user>>
           with_replies ==
               [total |-> out.total, rows |-> out.rows,
                replies |-> present_all_for_user(result.annotation_ids, rq.user)]
       IN IF rq.separate_replies
          THEN \/ Set(r, Return([Log(rq, "present_all_for_user", args, TRUE)
                                    EXCEPT !.out = Some(with_replies)],
                                with_replies))
               \/ Set(r, Raise(Log(rq, "present_all_for_user", args, FALSE),
                               "CollaboratorFailure"))
          ELSE Set(r, Return(rq, out))
    /\ UNCHANGED <<store, index, nextId, h_dev>>

\* if separate_replies:
\*     out["replies"] = svc.present_all_for_user(annotation_ids=result.reply_ids, ...)
\* return out
search_replies(r) ==
    LET rq == reqs[r]
        result == rq.result[1]
        out == rq.out[1]
        args == <<result.reply_ids, rq.user>>
    IN /\ rq.pc = "search_62"
       /\ IF rq.separate_replies
          THEN \/ LET with_replies ==
                          [total |-> out.total, rows |-> out.rows,
                           replies |-> present_all_for_user(result.reply_ids, rq.user)]
                  IN Set(r, Return([Log(rq, "present_all_for_user", args, TRUE)
                                       EXCEPT !.out = Some(with_replies)],
                                   with_replies))
               \/ Set(r, Raise(Log(rq, "present_all_for_user", args, FALSE),
                               "CollaboratorFailure"))
          ELSE Set(r, Return(rq, out))
       /\ UNCHANGED <<store, index, nextId, h_dev>>

----------------------------------------------------------------------------
(* The unit of work around a view, and the event queue *)

\* Where a view can be: before one of its collaborator calls.
ViewPcs ==
    {"search_47", "search_51", "search_53", "search_62",
     "create_81", "create_83", "create_87", "create_89",
     "read_104", "read_jsonld_116",
     "update_140", "update_142", "update_146", "update_148",
     "delete_163", "reindex_185"}

\* The view returned: the unit of work commits, or the commit fails.
tm_commit(r) ==
    LET rq == reqs[r]
    IN /\ rq.pc = "returned"
       /\ \/ /\ Set(r, [rq EXCEPT !.pc = "committed", !.tm = "committed"])
             /\ store' = ApplyStore(store, rq.tx)
             /\ index' = ApplyIndex(index, rq.tx)
          \/ /\ Set(r, [rq EXCEPT !.pc = "aborted", !.tm = "aborted",
                                  !.exception = "CommitFailure"])
             /\ UNCHANGED <<store, index>>
       /\ UNCHANGED <<nextId, h_dev>>

\* The view raised: the unit of work is rolled back.
tm_abort(r) ==
    LET rq == reqs[r]
    IN /\ rq.pc = "raised"
       /\ Set(r, [rq EXCEPT !.pc = "aborted", !.tm = "aborted"])
       /\ UNCHANGED <<store, index, nextId, h_dev>>

\* The client disconnects or the request times out before the commit.
cancel(r) ==
    LET rq == reqs[r]
    IN /\ rq.pc \in ViewPcs \cup {"returned"}
       /\ Set(r, [rq EXCEPT !.pc = "aborted", !.tm = "aborted", !.cancelled_at = rq.pc])
       /\ UNCHANGED <<store, index, nextId, h_dev>>

\* After a commit the queued events are delivered to the subscribers, in order.
publish_all(r) ==
    LET rq == reqs[r]
    IN /\ rq.pc = "committed"
       /\ Set(r, [rq EXCEPT !.pc = "done", !.delivered = @ \o rq.queue, !.queue = <<>>])
       /\ UNCHANGED <<store, index, nextId, h_dev>>

\* After a failure the queued events are dropped.
discard(r) ==
    LET rq == reqs[r]
    IN /\ rq.pc = "aborted"
       /\ Set(r, [rq EXCEPT !.pc = "done", !.queue = <<>>])
       /\ UNCHANGED <<store, index, nextId, h_dev>>

\* The response has been sent; the request object is gone.
finish(r) ==
    /\ reqs[r].pc = "done"
    /\ Set(r, IdleReq)
    /\ UNCHANGED <<store, index, nextId, h_dev>>

----------------------------------------------------------------------------

Next ==
    \E r \in Reqs :
        \/ begin_search(r) \/ begin_create(r) \/ begin_read(r) \/ begin_read_jsonld(r)
        \/ begin_update(r) \/ begin_delete(r) \/ begin_reindex(r)
        \/ search_validate(r) \/ search_run(r) \/ search_rows(r) \/ search_replies(r)
        \/ create_validate(r) \/ create_write(r) \/ create_publish(r) \/ create_present(r)
        \/ read(r) \/ read_jsonld(r)
        \/ update_validate(r) \/ update_write(r) \/ update_publish(r) \/ update_present(r)
        \/ delete(r) \/ reindex(r)
        \/ tm_commit(r) \/ tm_abort(r) \/ cancel(r) \/ publish_all(r) \/ discard(r)
        \/ finish(r)

Spec == Init /\ [][Next]_vars

\* Several workers: create and update requests are handled at the same time,
\* each worker serving one request in its own unit of work, and the steps of
\* the requests interleave in any order.  The requests come from one user and
\* carry either a payload the schema rejects or one it accepts.
ConcurrentInputs(r) ==
    /\ reqs'[r].user = "u1"
    /\ reqs'[r].payload \in {"bad", "yo"}

concurrent_create(r) ==
    /\ arrive_create(r)
    /\ ConcurrentInputs(r)

concurrent_update(r) ==
    /\ arrive_update(r)
    /\ ConcurrentInputs(r)

NextConcurrent ==
    \E r \in Reqs :
        \/ concurrent_create(r) \/ concurrent_update(r)
        \/ create_validate(r) \/ create_write(r) \/ create_publish(r) \/ create_present(r)
        \/ update_validate(r) \/ update_write(r) \/ update_publish(r) \/ update_present(r)
        \/ tm_commit(r) \/ tm_abort(r) \/ publish_all(r) \/ discard(r)

InitConcurrent ==
    /\ Init
    /\ ~h_dev

SpecConcurrent == InitConcurrent /\ [][NextConcurrent]_vars

----------------------------------------------------------------------------
(* Reading a request's call log *)

\* The positions of the calls of fn in the log of rq.
CallsOf(rq, fn) == {i \in 1..Len(rq.calls) : rq.calls[i].fn = fn}
\* Those that returned, and those that raised.
Succeeded(rq, fn) == {i \in CallsOf(rq, fn) : rq.calls[i].ok}
Failed(rq, fn) == {i \in CallsOf(rq, fn) : ~rq.calls[i].ok}

\* The write service call of a create or update request.
WriteFn(op) == IF op = "create" THEN "create_annotation" ELSE "update_annotation"
\* Where the view stands right before it publishes its event.
PublishPc(op) == IF op = "create" THEN "create_87" ELSE "update_146"
\* The view went on after its write: it is not about to publish, and it was
\* not cut off there.
WentOn(rq) == rq.pc # PublishPc(rq.op) /\ rq.cancelled_at # PublishPc(rq.op)

----------------------------------------------------------------------------
(* Claims *)

\* C1: in a create or update request, an event is scheduled with
\* notify_after_commit at most once, only after the write service call has
\* returned successfully, and with the request's operation as its action; once
\* the write has succeeded and the view has gone on, exactly one is scheduled.
C1_OneEventAfterWrite ==
    \A r \in Reqs :
        LET rq == reqs[r]
            written == Succeeded(rq, WriteFn(rq.op))
            scheduled == CallsOf(rq, "notify_after_commit")
        IN rq.op \in {"create", "update"} =>
              /\ Cardinality(scheduled) <= 1
              /\ \A i \in scheduled :
                    /\ \E j \in written : j < i
                    /\ rq.calls[i].args[1].action = rq.op
              /\ (written # {} /\ WentOn(rq)) => Cardinality(scheduled) = 1
              /\ CallsOf(rq, "registry.notify") = {}

\* C1 witness: an update whose write succeeded has returned with its one event
\* scheduled.
C1_Witness ==
    \E r \in Reqs :
        /\ reqs[r].op = "update"
        /\ reqs[r].pc = "returned"
        /\ Succeeded(reqs[r], "update_annotation") # {}
        /\ Len(reqs[r].queue) = 1

\* C2: when the write service call of a create or update fails, the view
\* raises that failure at once: it is the last call the request makes, no
\* event is scheduled and nothing is presented.
C2_NoEventOnWriteFailure ==
    \A r \in Reqs :
        LET rq == reqs[r]
        IN (rq.op \in {"create", "update"} /\ Failed(rq, WriteFn(rq.op)) # {}) =>
              /\ Failed(rq, WriteFn(rq.op)) = {Len(rq.calls)}
              /\ CallsOf(rq, "notify_after_commit") = {}
              /\ CallsOf(rq, "present_for_user") = {}
              /\ rq.queue = <<>> /\ rq.delivered = <<>>
              /\ rq.exception = "CollaboratorFailure"
              /\ rq.response = None
              /\ rq.pc \in {"raised", "aborted", "done"}

\* C2 witness: an update whose write failed has raised.
C2_Witness ==
    \E r \in Reqs :
        /\ reqs[r].op = "update"
        /\ reqs[r].pc = "raised"
        /\ Failed(reqs[r], "update_annotation") # {}

\* C3: events reach the subscribers only from a unit of work that committed
\* and was not cancelled, and each delivered event is one the view scheduled
\* for a write that is now in the store; a unit of work that failed, was
\* rolled back or was cancelled delivers nothing.
C3_DeliveredOnlyAfterCommit ==
    \A r \in Reqs :
        LET rq == reqs[r]
        IN /\ rq.delivered # <<>> =>
                 /\ rq.tm = "committed"
                 /\ rq.cancelled_at = ""
                 /\ \A i \in 1..Len(rq.delivered) :
                       \E j \in 1..Len(rq.tx) :
                          /\ rq.tx[j].kind = "put"
                          /\ rq.tx[j].annotation.id = rq.delivered[i].annotation_id
                          /\ store[rq.tx[j].annotation.id] = Some(rq.tx[j].annotation)
           /\ rq.tm # "committed" => rq.delivered = <<>>

\* C3 witness: a committed create has had its event delivered.
C3_Witness ==
    \E r \in Reqs :
        /\ reqs[r].op = "create"
        /\ reqs[r].tm = "committed"
        /\ Len(reqs[r].delivered) = 1

\* The ids of a sequence of presented annotations, in its order.
PresentedIds(rows) == [i \in 1..Len(rows) |-> rows[i].presented]

\* C4: the response of a search has the key "replies" exactly when the request
\* sent _separate_replies as true: without the parameter, or with it false,
\* the keys are total and rows; with it true they are total, rows and replies,
\* whatever the reply ids are.
C4_RepliesKeyIffFlag ==
    \A r \in Reqs :
        LET rq == reqs[r]
        IN (rq.op = "search" /\ rq.response # None) =>
              DOMAIN rq.response[1] =
                  IF rq.rawflag = "true" THEN {"total", "rows", "replies"}
                  ELSE {"total", "rows"}

\* C4 witness: a search with the flag true and no reply ids has returned a
\* response with an empty replies list.
C4_Witness ==
    \E r \in Reqs :
        /\ reqs[r].op = "search"
        /\ reqs[r].rawflag = "true"
        /\ reqs[r].response # None
        /\ reqs[r].result[1].reply_ids = <<>>
        /\ reqs[r].response[1].replies = <<>>

\* C5: once the deletion collaborator has succeeded, the view has returned
\* exactly {id: the target's id, deleted: true}, and a delete request never
\* schedules or delivers an event.
C5_DeleteAcknowledgedWithoutEvent ==
    \A r \in Reqs :
        LET rq == reqs[r]
        IN rq.op = "delete" =>
              /\ Succeeded(rq, "delete") # {} =>
                    rq.response = Some([id |-> rq.context[1].id, deleted |-> TRUE])
              /\ CallsOf(rq, "notify_after_commit") = {}
              /\ rq.queue = <<>> /\ rq.delivered = <<>>

\* C5 witness: a delete has been committed and the request is over.
C5_Witness ==
    \E r \in Reqs :
        /\ reqs[r].op = "delete"
        /\ reqs[r].pc = "done"
        /\ reqs[r].tm = "committed"
        /\ store[reqs[r].context[1].id] = None

\* C6: with h.dev false, the step of a reindex request raises HTTPNotFound
\* whatever its target, and during the whole request no collaborator is
\* called, the index and the store stay as they are and no event is scheduled.
C6_ReindexGated ==
    [][\A r \in Reqs :
          (reqs[r].op = "reindex" /\ ~h_dev) =>
              /\ index' = index /\ store' = store
              /\ reqs'[r].calls = <<>>
              /\ reqs'[r].queue = <<>> /\ reqs'[r].tx = <<>>
              /\ reqs'[r].response = None
              /\ (reqs[r].pc = "reindex_185" /\ reqs'[r].cancelled_at = "") =>
                    /\ reqs'[r].pc = "raised"
                    /\ reqs'[r].exception = "HTTPNotFound"]_vars

\* C6 witness: a reindex request has raised HTTPNotFound with h.dev false.
C6_Witness ==
    \E r \in Reqs :
        /\ reqs[r].op = "reindex"
        /\ ~h_dev
        /\ reqs[r].pc = "raised"
        /\ reqs[r].exception = "HTTPNotFound"

\* The view of a reindex request has run.
ReindexRan(rq) ==
    rq.op = "reindex" /\ rq.pc # "reindex_185" /\ rq.cancelled_at # "reindex_185"

\* C7 as stated: with h.dev true a reindex request always succeeds, with one
\* add_annotation call on the target with refresh=true, the response
\* {id, indexed: true} and no event.
C7_ReindexAlwaysSucceeds ==
    \A r \in Reqs :
        LET rq == reqs[r]
        IN (ReindexRan(rq) /\ h_dev) =>
              /\ Cardinality(CallsOf(rq, "add_annotation")) = 1
              /\ rq.calls[1].args = <<rq.context[1], [refresh |-> TRUE]>>
              /\ rq.response = Some([id |-> rq.context[1].id, indexed |-> TRUE])
              /\ rq.queue = <<>>

\* C7 amended: with h.dev true a reindex request calls add_annotation exactly
\* once, on the target with refresh=true, and schedules no event; when that
\* call returns, the target is in the index and the view returns exactly
\* {id, indexed: true}; when it raises, the view raises and returns nothing.
C7_ReindexOnce ==
    \A r \in Reqs :
        LET rq == reqs[r]
        IN (ReindexRan(rq) /\ h_dev) =>
              /\ rq.calls = <<Call("add_annotation",
                                   <<rq.context[1], [refresh |-> TRUE]>>,
                                   rq.calls[1].ok)>>
              /\ rq.queue = <<>> /\ rq.delivered = <<>>
              /\ rq.calls[1].ok =>
                    /\ rq.response = Some([id |-> rq.context[1].id, indexed |-> TRUE])
                    /\ rq.context[1].id \in index
              /\ ~rq.calls[1].ok =>
                    /\ rq.response = None
                    /\ rq.exception = "CollaboratorFailure"

\* C7 witness: with h.dev true a reindex request has returned.
C7_Witness ==
    \E r \in Reqs :
        /\ reqs[r].op = "reindex"
        /\ h_dev
        /\ reqs[r].pc = "returned"
        /\ reqs[r].context[1].id \in index

\* C8: when the validation of a create or update payload fails, it is the
\* only call the request makes: the write service is not called, nothing is
\* left to commit and nothing is committed, the target of an update is still
\* stored as it was, no event is scheduled, and the view raises the error.
C8_NoMutationOnValidationError ==
    \A r \in Reqs :
        LET rq == reqs[r]
        IN (rq.op \in {"create", "update"} /\ Failed(rq, "validate") # {}) =>
              /\ Len(rq.calls) = 1
              /\ CallsOf(rq, WriteFn(rq.op)) = {}
              /\ rq.tx = <<>> /\ rq.tm # "committed"
              /\ rq.op = "update" => store[rq.context[1].id] = rq.context
              /\ CallsOf(rq, "notify_after_commit") = {}
              /\ rq.queue = <<>> /\ rq.delivered = <<>>
              /\ rq.exception = "ValidationError"
              /\ rq.response = None

\* C8 witness: an update with a payload the schema rejects has raised.
C8_Witness ==
    \E r \in Reqs :
        /\ reqs[r].op = "update"
        /\ reqs[r].payload = "bad"
        /\ reqs[r].pc = "raised"
        /\ reqs[r].exception = "ValidationError"

\* C9: in the response of a search with separated replies, no annotation id
\* is presented both under rows and under replies.
C9_RowsAndRepliesDisjoint ==
    \A r \in Reqs :
        LET rq == reqs[r]
        IN (rq.op = "search" /\ rq.response # None /\ rq.separate_replies) =>
              Range(PresentedIds(rq.response[1].rows))
                  \cap Range(PresentedIds(rq.response[1].replies)) = {}

\* C9 witness: a search has returned a primary result and a reply.
C9_Witness ==
    \E r \in Reqs :
        /\ reqs[r].op = "search"
        /\ reqs[r].response # None
        /\ reqs[r].separate_replies
        /\ reqs[r].response[1].rows # <<>>
        /\ reqs[r].response[1].replies # <<>>

\* C10: a search hands the presentation service first the primary ids and
\* then (with separated replies) the reply ids, each exactly as the search
\* returned them, and its response carries the search's total, the presented
\* primary ids under rows and the presented reply ids under replies, in the
\* same order, none missing and none twice.  (The calls of a search are, in
\* order: validate_query_params, Search.run, present_all_for_user for the rows,
\* present_all_for_user for the replies.)
C10_SearchPassesResultsThrough ==
    \A r \in Reqs :
        LET rq == reqs[r]
            presented == CallsOf(rq, "present_all_for_user")
        IN rq.op = "search" =>
              /\ \A i \in presented :
                    rq.calls[i].args[1] =
                        IF i = 3 THEN rq.result[1].annotation_ids
                        ELSE rq.result[1].reply_ids
              /\ presented \subseteq {3, 4}
              /\ rq.response # None =>
                    /\ rq.response[1].total = rq.result[1].total
                    /\ PresentedIds(rq.response[1].rows) = rq.result[1].annotation_ids
                    /\ rq.separate_replies =>
                          PresentedIds(rq.response[1].replies) = rq.result[1].reply_ids

\* C10 witness: a search whose primary ids came back in descending order has
\* returned them.
C10_Witness ==
    \E r \in Reqs :
        /\ reqs[r].op = "search"
        /\ reqs[r].response # None
        /\ Len(reqs[r].result[1].annotation_ids) = 2
        /\ reqs[r].result[1].annotation_ids[1] > reqs[r].result[1].annotation_ids[2]
        /\ reqs[r].response[1].total = 2

\* What the write service returned to a create or update request: the
\* annotation its unit of work holds for the commit.
Written(rq) == rq.tx[1].annotation

\* C11: when a create or update has returned, its response is the presented
\* form, for the requesting user, of the annotation the write service
\* returned, and its one event names the id of that annotation, the
\* operation and the request itself; an update's annotation is the record of
\* its context with the validated contents.
C11_ResponseAndEventOfWrittenAnnotation ==
    \A r \in Reqs :
        LET rq == reqs[r]
        IN (rq.op \in {"create", "update"} /\ rq.response # None) =>
              /\ Len(rq.tx) = 1
              /\ rq.response = Some(present_for_user(Written(rq), rq.user))
              /\ \A i \in CallsOf(rq, "present_for_user") :
                    rq.calls[i].args = <<Written(rq), rq.user>>
              /\ \A i \in CallsOf(rq, "notify_after_commit") :
                    rq.calls[i].args[1] = AnnotationEvent(r, Written(rq).id, rq.op)
              /\ rq.op = "update" =>
                    /\ Written(rq).id = rq.context[1].id
                    /\ Written(rq).text = rq.payload

\* C11 witness: an update that changes the contents of its annotation has
\* returned.
C11_Witness ==
    \E r \in Reqs :
        /\ reqs[r].op = "update"
        /\ reqs[r].pc = "returned"
        /\ reqs[r].payload # reqs[r].context[1].text
        /\ Len(reqs[r].queue) = 1
        /\ reqs[r].queue[1].annotation_id = reqs[r].context[1].id

\* The events a request has scheduled or had delivered.
EventsOf(rq) ==
    Range(rq.queue) \cup Range(rq.delivered)
        \cup {rq.calls[i].args[1] : i \in CallsOf(rq, "notify_after_commit")}

\* The collaborator calls that change the annotation store.
MutationFns == {"create_annotation", "update_annotation", "delete"}

\* C12: every event a request has scheduled has one of the actions create,
\* update, delete; and a read, read_jsonld, search or reindex request
\* schedules no event, calls none of the collaborators that change the
\* annotation store and holds nothing for the commit.
C12_EventActionsAndReadOnlyViews ==
    \A r \in Reqs :
        LET rq == reqs[r]
        IN /\ \A e \in EventsOf(rq) : e.action \in AnnotationAction
           /\ rq.op \in {"read", "read_jsonld", "search", "reindex"} =>
                 /\ EventsOf(rq) = {}
                 /\ \A i \in 1..Len(rq.calls) : rq.calls[i].fn \notin MutationFns
                 /\ rq.tx = <<>>

\* C12 witness: a reindex request that indexed its annotation has been
\* committed and is over.
C12_Witness ==
    \E r \in Reqs :
        /\ reqs[r].op = "reindex"
        /\ reqs[r].pc = "done"
        /\ reqs[r].tm = "committed"
        /\ Succeeded(reqs[r], "add_annotation") # {}

\* C13: no step of a read request changes the annotation store, the search
\* index or the identifiers handed out, and none schedules or delivers an
\* event; and when the view returns, its output is what a read of the same
\* annotation by the same user returns from the state it leaves behind: the
\* presented form, for that user, of the annotation as it is stored.
C13_ReadIdempotent ==
    [][\A r \in Reqs :
          reqs[r].op = "read" =>
              /\ store' = store /\ index' = index /\ nextId' = nextId
              /\ reqs'[r].queue = <<>> /\ reqs'[r].delivered = <<>>
              /\ reqs'[r].tx = <<>>
              /\ (reqs[r].pc = "read_104" /\ reqs'[r].response # None) =>
                    /\ store'[reqs[r].context[1].id] # None
                    /\ reqs'[r].response =
                          Some(present_for_user(store'[reqs[r].context[1].id][1],
                                                reqs[r].user))]_vars

\* C13 witness: a read has returned the presented annotation and its unit of
\* work has been committed.
C13_Witness ==
    \E r \in Reqs :
        /\ reqs[r].op = "read"
        /\ reqs[r].pc = "done"
        /\ reqs[r].tm = "committed"
        /\ reqs[r].response =
              Some(present_for_user(store[reqs[r].context[1].id][1], reqs[r].user))

\* The names of the calls a request has made, in order.
Fns(rq) == [i \in 1..Len(rq.calls) |-> rq.calls[i].fn]

\* s is a prefix of t.
IsPrefix(s, t) == Len(s) <= Len(t) /\ \A i \in 1..Len(s) : s[i] = t[i]

\* The calls of a request without its validation.
AfterValidation(rq) ==
    SelectSeq(Fns(rq), LAMBDA fn : fn \notin {"validate", "validate_query_params"})

PresentationFns ==
    {"present_for_user", "present_all_for_user", "AnnotationJSONLDPresenter.asdict"}

\* C14 as stated, for the views that mutate: every create, update or delete
\* that returns has called exactly one mutation collaborator, then scheduled
\* an event, then called the presentation collaborator.
C14_EveryViewSameOrder ==
    \A r \in Reqs :
        LET rq == reqs[r]
            fns == AfterValidation(rq)
        IN (rq.op \in {"create", "update", "delete"} /\ rq.response # None) =>
              /\ Len(fns) = 3
              /\ fns[1] \in MutationFns
              /\ fns[2] = "notify_after_commit"
              /\ fns[3] \in PresentationFns

\* The calls of each view on its success path.
StepOrder(rq) ==
    CASE rq.op = "create" ->
            <<"validate", "create_annotation", "notify_after_commit", "present_for_user">>
      [] rq.op = "update" ->
            <<"validate", "update_annotation", "notify_after_commit", "present_for_user">>
      [] rq.op = "search" ->
            <<"validate_query_params", "Search.run", "present_all_for_user">>
                \o (IF rq.separate_replies THEN <<"present_all_for_user">> ELSE <<>>)
      [] rq.op = "read" -> <<"present_for_user">>
      [] rq.op = "read_jsonld" -> <<"AnnotationJSONLDPresenter.asdict">>
      [] rq.op = "delete" -> <<"delete">>
      [] rq.op = "reindex" -> <<"add_annotation">>
      [] OTHER -> <<>>

\* C14 amended: create and update call, in this order and each once,
\* validate, the write service, notify_after_commit and present_for_user;
\* search calls validate_query_params, Search.run and present_all_for_user
\* (twice with separated replies); read and read_jsonld call only their
\* presenter; delete and reindex call only their one collaborator, schedule no
\* event and present nothing.  At any moment the calls made are the first of
\* that order, only the last of them can have failed, and a view that returns
\* has made them all.
C14_StepOrder ==
    \A r \in Reqs :
        LET rq == reqs[r]
        IN /\ IsPrefix(Fns(rq), StepOrder(rq))
           /\ \A i \in 1..Len(rq.calls) : i < Len(rq.calls) => rq.calls[i].ok
           /\ rq.response # None =>
                 /\ Fns(rq) = StepOrder(rq)
                 /\ \A i \in 1..Len(rq.calls) : rq.calls[i].ok

\* C14 witness: a create has returned after its four calls.
C14_Witness ==
    \E r \in Reqs :
        /\ reqs[r].op = "create"
        /\ reqs[r].pc = "returned"
        /\ Len(reqs[r].calls) = 4

\* C15 as stated: whenever a create or update has raised, whichever step
\* failed, no event has been scheduled for the request.
C15_NoEventOnAnyFailure ==
    \A r \in Reqs :
        LET rq == reqs[r]
        IN (rq.op \in {"create", "update"} /\ rq.pc = "raised") =>
              /\ CallsOf(rq, "notify_after_commit") = {}
              /\ rq.queue = <<>>

\* C15 amended: when the validation or the write service call of a create or
\* update fails, no event has been scheduled when the view raises; when
\* present_for_user fails after a successful write, the one event of the
\* request has been scheduled and is still queued when the view raises, and it
\* is dropped, never delivered, when the unit of work is rolled back.
C15_EventOnFailurePaths ==
    \A r \in Reqs :
        LET rq == reqs[r]
            scheduled == CallsOf(rq, "notify_after_commit")
        IN rq.op \in {"create", "update"} =>
              /\ (Failed(rq, "validate") # {} \/ Failed(rq, WriteFn(rq.op)) # {}) =>
                    /\ scheduled = {}
                    /\ rq.queue = <<>> /\ rq.delivered = <<>>
              /\ Failed(rq, "present_for_user") # {} =>
                    /\ Cardinality(scheduled) = 1
                    /\ \A i \in scheduled : i < Len(rq.calls)
                    /\ rq.exception = "CollaboratorFailure"
                    /\ rq.response = None
                    /\ rq.delivered = <<>>
                    /\ rq.tm # "committed"
                    /\ rq.pc \in {"raised", "aborted"} =>
                          rq.queue = <<AnnotationEvent(r, Written(rq).id, rq.op)>>
                    /\ rq.pc = "done" => rq.queue = <<>>

\* C15 witness: a create whose write succeeded has raised from
\* present_for_user with its event queued.
C15_Witness ==
    \E r \in Reqs :
        /\ reqs[r].op = "create"
        /\ reqs[r].pc = "raised"
        /\ Failed(reqs[r], "present_for_user") # {}
        /\ Len(reqs[r].queue) = 1

\* The view of a search request has gone past its call of Search.run.
SearchRan(rq) ==
    /\ rq.op = "search"
    /\ Succeeded(rq, "validate_query_params") # {}
    /\ rq.pc \notin {"search_47", "search_51"}
    /\ rq.cancelled_at \notin {"search_47", "search_51"}

\* C16: a search request calls Search.run at most once, and exactly once when
\* its parameters are valid and the view has gone past the call; the
\* parameters it forwards are the validated ones without _separate_replies;
\* the flag it passes is true exactly when the request sent the parameter as
\* true (false when it was not sent), and the response has the key replies
\* exactly when that flag is true.
C16_SearchRunOnceWithoutFlag ==
    \A r \in Reqs :
        LET rq == reqs[r]
            ran == CallsOf(rq, "Search.run")
        IN rq.op = "search" =>
              /\ Cardinality(ran) <= 1
              /\ SearchRan(rq) => Cardinality(ran) = 1
              /\ \A i \in ran :
                    /\ DOMAIN rq.calls[i].args[1] = {"q"}
                    /\ rq.calls[i].args[1]["q"] = "foo"
                    /\ rq.calls[i].args[2].separate_replies = (rq.rawflag = "true")
                    /\ rq.response # None =>
                          ("replies" \in DOMAIN rq.response[1])
                              = rq.calls[i].args[2].separate_replies

\* C16 witness: a search sent without the parameter has returned after one
\* call of Search.run with the flag false.
C16_Witness ==
    \E r \in Reqs :
        /\ reqs[r].op = "search"
        /\ reqs[r].rawflag = "absent"
        /\ reqs[r].pc = "returned"
        /\ Cardinality(CallsOf(reqs[r], "Search.run")) = 1
        /\ ~reqs[r].calls[2].args[2].separate_replies

\* The collaborator operations of the views, apart from presentation.
CollaboratorFns ==
    {"validate", "validate_query_params", "create_annotation", "update_annotation",
     "delete", "add_annotation", "Search.run"}

\* The failure a collaborator operation raises.
FailureOf(fn) ==
    IF fn \in {"validate", "validate_query_params"} THEN "ValidationError"
    ELSE "CollaboratorFailure"

\* C17: a request calls each of validate, validate_query_params,
\* create_annotation, update_annotation, delete, add_annotation and Search.run
\* at most once; and a call that fails is the last call of the request: the
\* view raises the collaborator's failure as it is, returns no body, and its
\* unit of work is not committed.
C17_NoRetryNoRecovery ==
    \A r \in Reqs :
        LET rq == reqs[r]
        IN /\ \A fn \in CollaboratorFns : Cardinality(CallsOf(rq, fn)) <= 1
           /\ \A i \in 1..Len(rq.calls) :
                 ~rq.calls[i].ok =>
                    /\ i = Len(rq.calls)
                    /\ rq.exception = FailureOf(rq.calls[i].fn)
                    /\ rq.response = None
                    /\ rq.pc \in {"raised", "aborted", "done"}
                    /\ rq.tm # "committed"
                    /\ rq.delivered = <<>>

\* C17 witness: a delete whose deletion collaborator failed has raised.
C17_Witness ==
    \E r \in Reqs :
        /\ reqs[r].op = "delete"
        /\ reqs[r].pc = "raised"
        /\ Failed(reqs[r], "delete") # {}
        /\ reqs[r].response = None

\* The number of events a create or update request schedules, given how far
\* it has come: one once its own write has returned and the view has gone on.
OwnEvents(rq) ==
    IF Succeeded(rq, WriteFn(rq.op)) # {} /\ WentOn(rq) THEN 1 ELSE 0

\* C18: with create and update requests handled at the same time, in any
\* interleaving of their steps, what a request schedules depends on that
\* request alone: it schedules one event once its own write has returned and
\* none otherwise, whatever the other requests do or fail at; every event it
\* schedules, queues or has delivered carries the request itself, the id of
\* the annotation its own write returned and its own operation; and two
\* creates are never handed the same annotation.
C18_EventsOfOwnRequest ==
    /\ \A r \in Reqs :
          LET rq == reqs[r]
          IN rq.op \in {"create", "update"} =>
                /\ Cardinality(CallsOf(rq, "notify_after_commit")) = OwnEvents(rq)
                /\ Len(rq.queue) + Len(rq.delivered) <= OwnEvents(rq)
                /\ \A e \in EventsOf(rq) :
                      e = AnnotationEvent(r, Written(rq).id, rq.op)
    /\ \A r1, r2 \in Reqs :
          (/\ r1 # r2
           /\ reqs[r1].op = "create" /\ reqs[r2].op = "create"
           /\ reqs[r1].tx # <<>> /\ reqs[r2].tx # <<>>)
             => Written(reqs[r1]).id # Written(reqs[r2]).id

\* C18 witness: a create and an update are both in the middle of their views,
\* each between publishing and presenting, each with its own event queued.
C18_Witness ==
    \E r1, r2 \in Reqs :
        /\ reqs[r1].pc = "create_89"
        /\ reqs[r2].pc = "update_148"
        /\ Len(reqs[r1].queue) = 1 /\ reqs[r1].queue[1].request = r1
        /\ Len(reqs[r2].queue) = 1 /\ reqs[r2].queue[1].request = r2

====
